---------------------------- MODULE Spec2Model ----------------------------
(***************************************************************************)
(* Model of back_end/main.py: the value-coercion helper smart_parse, the   *)
(* SheetOps grid snapshot / address resolution / bounds scanner, and the   *)
(* request handlers that read and write the worksheet.                     *)
(*                                                                         *)
(* A Python str is a sequence of one-character strings, so that strip(),   *)
(* lower(), the int()/float() literal grammars and the regular expression  *)
(* [A-Za-z] are computed character by character.                           *)
(***************************************************************************)
EXTENDS Integers, Sequences, FiniteSets, TLC

VARIABLES
    raw,      \* set_cell: the value query parameter
    parsed,   \* set_cell: smart_parse(value or "")
    vals,     \* what ws.get_all_values() returns: rows of cell texts
    ops,      \* the SheetOps object: headers and df (the data rows)
    call,     \* the SheetOps method called on ops, with its outcome
    store,    \* the worksheet: store[row][col] is the text of a cell
    req       \* the requests: kind, parameters, position in the handler

parseVars == <<raw, parsed>>
opsVars == <<vals, ops, call>>
netVars == <<store, req>>
vars == <<raw, parsed, vals, ops, call, store, req>>

(***************************************************************************)
(* Bounds of the model.                                                    *)
(***************************************************************************)
MaxParseLen == 4
MaxCols == 2
MaxDataRows == 2
NumRequests == 2
SheetDataRows == 2

(***************************************************************************)
(* Characters and str methods.                                             *)
(***************************************************************************)
UpperChars == <<"A","B","C","D","E","F","G","H","I","J","K","L","M",
                "N","O","P","Q","R","S","T","U","V","W","X","Y","Z">>
LowerChars == <<"a","b","c","d","e","f","g","h","i","j","k","l","m",
                "n","o","p","q","r","s","t","u","v","w","x","y","z">>
DigitChars == <<"0","1","2","3","4","5","6","7","8","9">>
Whitespace == {" ", "\t", "\n"}

Range(f) == {f[i] : i \in DOMAIN f}
UpperSet == Range(UpperChars)
LowerSet == Range(LowerChars)
DigitSet == Range(DigitChars)
IsUpper(c) == c \in UpperSet
IsLower(c) == c \in LowerSet
IsAlpha(c) == IsUpper(c) \/ IsLower(c)
IsDigit(c) == c \in DigitSet
DigitVal(c) == (CHOOSE i \in 1..10 : DigitChars[i] = c) - 1

\* ord(c.upper()) - ord("A") for an ASCII letter c
LetterIndex(c) ==
    (CHOOSE i \in 1..26 : UpperChars[i] = c \/ LowerChars[i] = c) - 1

LowerChar(c) ==
    IF IsUpper(c) THEN LowerChars[LetterIndex(c) + 1] ELSE c
StrLower(s) == [i \in 1..Len(s) |-> LowerChar(s[i])]

\* str.strip(): drop leading and trailing whitespace
RECURSIVE LStrip(_)
LStrip(s) ==
    IF s # <<>> /\ Head(s) \in Whitespace THEN LStrip(Tail(s)) ELSE s
RECURSIVE RStrip(_)
RStrip(s) ==
    IF s # <<>> /\ s[Len(s)] \in Whitespace
    THEN RStrip(SubSeq(s, 1, Len(s) - 1)) ELSE s
Strip(s) == RStrip(LStrip(s))

\* position of the first element of s that is in set cs, 0 if none
FirstIn(s, cs) ==
    IF \E i \in 1..Len(s) : s[i] \in cs
    THEN CHOOSE i \in 1..Len(s) :
            s[i] \in cs /\ \A j \in 1..(i - 1) : s[j] \notin cs
    ELSE 0

RECURSIVE Pow10(_)
Pow10(n) == IF n <= 0 THEN 1 ELSE 10 * Pow10(n - 1)


(***************************************************************************)
(* Python values: str, bool, int, float.  A float is kept as an exact      *)
(* decimal  (-1)^neg * mant * 10^exp  with mant free of trailing zeros, or *)
(* as inf / nan; a literal beyond the range of a double becomes inf or 0.  *)
(***************************************************************************)
PyStr(s) == [t |-> "str", s |-> s]
PyBool(b) == [t |-> "bool", b |-> b]
PyIntVal(n) == [t |-> "int", n |-> n]
PyFloatVal(kind, neg, mant, exp) ==
    [t |-> "float", kind |-> kind, neg |-> neg, mant |-> mant, exp |-> exp]
PyNone == [t |-> "none"]

T_true == <<"t","r","u","e">>
T_false == <<"f","a","l","s","e">>
T_inf == <<"i","n","f">>
T_infinity == <<"i","n","f","i","n","i","t","y">>
T_nan == <<"n","a","n">>

HasSign(s) == s # <<>> /\ s[1] \in {"+", "-"}
IsNeg(s) == s # <<>> /\ s[1] = "-"
Unsigned(s) == IF HasSign(s) THEN Tail(s) ELSE s

\* digitpart ::= digit (["_"] digit)*
IsDigitPart(s) ==
    /\ s # <<>>
    /\ IsDigit(s[1])
    /\ IsDigit(s[Len(s)])
    /\ \A i \in 1..Len(s) : IsDigit(s[i]) \/ s[i] = "_"
    /\ \A i \in 1..(Len(s) - 1) : ~(s[i] = "_" /\ s[i + 1] = "_")

DigitsOf(s) == SelectSeq(s, IsDigit)

RECURSIVE DigitsVal(_)
DigitsVal(ds) ==
    IF ds = <<>> THEN 0
    ELSE 10 * DigitsVal(SubSeq(ds, 1, Len(ds) - 1)) + DigitVal(ds[Len(ds)])

RECURSIVE NumDigits(_)
NumDigits(n) == IF n < 10 THEN 1 ELSE 1 + NumDigits(n \div 10)

\* int(s): surrounding whitespace, an optional sign, a base-10 digitpart;
\* ok = FALSE stands for ValueError
PyInt(s) ==
    LET u == Strip(s)
        b == Unsigned(u)
    IN  IF IsDigitPart(b)
        THEN [ok |-> TRUE,
              n |-> IF IsNeg(u) THEN 0 - DigitsVal(DigitsOf(b))
                    ELSE DigitsVal(DigitsOf(b))]
        ELSE [ok |-> FALSE, n |-> 0]

RECURSIVE StripZeros(_, _)
StripZeros(m, e) ==
    IF m = 0 THEN <<0, 0>>
    ELSE IF m % 10 = 0 THEN StripZeros(m \div 10, e + 1)
    ELSE <<m, e>>

\* the double nearest to  mant * 10^exp : beyond the largest double it is
\* inf, below half the smallest subnormal it is 0
MkFloat(neg, mant, exp) ==
    LET me  == StripZeros(mant, exp)
        m   == me[1]
        e   == me[2]
        nd  == NumDigits(m)
        adj == e + nd - 1
        lead == m * Pow10(9 - nd)
    IN  IF m = 0 THEN PyFloatVal("fin", neg, 0, 0)
        ELSE IF adj > 308 \/ (adj = 308 /\ lead >= 179769314)
             THEN PyFloatVal("inf", neg, 0, 0)
        ELSE IF adj < -324 \/ (adj = -324 /\ lead < 247032823)
             THEN PyFloatVal("fin", neg, 0, 0)
        ELSE PyFloatVal("fin", neg, m, e)

\* number ::= [digitpart] "." digitpart | digitpart ["."]
IsFloatNumber(s) ==
    LET dot == FirstIn(s, {"."})
        ip  == SubSeq(s, 1, dot - 1)
        fp  == SubSeq(s, dot + 1, Len(s))
    IN  IF dot = 0 THEN IsDigitPart(s)
        ELSE \/ ip = <<>> /\ IsDigitPart(fp)
             \/ IsDigitPart(ip) /\ (fp = <<>> \/ IsDigitPart(fp))

\* float(s): surrounding whitespace, an optional sign, then inf, infinity
\* or nan in any case, or number [("e"|"E") [sign] digitpart];
\* ok = FALSE stands for ValueError
PyFloat(s) ==
    LET u    == Strip(s)
        b    == Unsigned(u)
        epos == FirstIn(b, {"e", "E"})
        ms   == IF epos = 0 THEN b ELSE SubSeq(b, 1, epos - 1)
        es   == IF epos = 0 THEN <<>> ELSE SubSeq(b, epos + 1, Len(b))
        dot  == FirstIn(ms, {"."})
        ip   == IF dot = 0 THEN ms ELSE SubSeq(ms, 1, dot - 1)
        fp   == IF dot = 0 THEN <<>> ELSE SubSeq(ms, dot + 1, Len(ms))
        ev   == IF epos = 0 THEN 0
                ELSE IF IsNeg(es) THEN 0 - DigitsVal(DigitsOf(es))
                ELSE DigitsVal(DigitsOf(es))
    IN  IF StrLower(b) \in {T_inf, T_infinity}
        THEN [ok |-> TRUE, v |-> PyFloatVal("inf", IsNeg(u), 0, 0)]
        ELSE IF StrLower(b) = T_nan
        THEN [ok |-> TRUE, v |-> PyFloatVal("nan", IsNeg(u), 0, 0)]
        ELSE IF IsFloatNumber(ms) /\ (epos = 0 \/ IsDigitPart(Unsigned(es)))
        THEN [ok |-> TRUE,
              v |-> MkFloat(IsNeg(u), DigitsVal(DigitsOf(ip) \o DigitsOf(fp)),
                            ev - Len(DigitsOf(fp)))]
        ELSE [ok |-> FALSE, v |-> PyNone]

\* smart_parse with the float attempt ahead of the int attempt
smart_parse_FloatFirst(v) ==
    LET s == Strip(v)
    IN  IF s = <<>> THEN PyStr(<<>>)
        ELSE IF StrLower(s) \in {T_true, T_false}
             THEN PyBool(StrLower(s) = T_true)
        ELSE IF PyFloat(s).ok THEN PyFloat(s).v
        ELSE IF PyInt(s).ok THEN PyIntVal(PyInt(s).n)
        ELSE PyStr(s)

\* smart_parse(raw)
smart_parse(v) ==
    LET s == Strip(v)
    IN  IF s = <<>> THEN PyStr(<<>>)
        ELSE IF StrLower(s) \in {T_true, T_false}
             THEN PyBool(StrLower(s) = T_true)
        ELSE IF PyInt(s).ok THEN PyIntVal(PyInt(s).n)
        ELSE IF PyFloat(s).ok THEN PyFloat(s).v
        ELSE PyStr(s)

\* value or "" : None and "" both give ""
ValueOrEmpty(v) == IF v = PyNone THEN <<>> ELSE v.s

(***************************************************************************)
(* Specification SpecParse: set_cell's parsing of its value parameter.     *)
(***************************************************************************)
ParseAlphabet == {" ", "1", "2", "-", "+", ".", "e", "_", "x"}

ParseExamples ==
    { T_true, T_false, <<"T","r","u","e">>, <<"F","A","L","S","E">>,
      <<" ","t","R","u","E"," ">>, <<"t","r","u","e","x">>,
      <<"4","2">>, <<"3",".","5">>, <<" "," ">>,
      <<"h","e","l","l","o">>, <<"-","0">>, <<"0","0","7">>,
      <<"1","_","0","0","0">>, <<"\t","4","2","\n">>,
      T_inf, T_nan, <<"-","I","n","f","i","n","i","t","y">>,
      <<"1","e","4","0","0">>, <<"1","e","-","4","0","0">>,
      <<"1",".","5","E","3">>, <<"1","0","0",".","0">> }

TextsUpTo(alphabet, n) == UNION {[1..k -> alphabet] : k \in 0..n}

ParseInputs ==
    {PyNone} \cup {PyStr(s) : s \in TextsUpTo(ParseAlphabet, MaxParseLen)
                                    \cup ParseExamples}

NoOps == [made |-> FALSE]
NoCall == [op |-> "none"]

InitParse ==
    /\ raw \in ParseInputs
    /\ parsed = PyNone
    /\ vals = <<>>
    /\ ops = NoOps
    /\ call = NoCall
    /\ store = <<>>
    /\ req = <<>>

\* set_cell._run: parsed = smart_parse(value or "")
SetCellParse ==
    /\ parsed = PyNone
    /\ parsed' = smart_parse(ValueOrEmpty(raw))
    /\ UNCHANGED <<raw, opsVars, netVars>>

NextParse == SetCellParse

SpecParse == InitParse /\ [][NextParse]_vars

\* the text smart_parse works on
TrimmedRaw == Strip(ValueOrEmpty(raw))

\* an optional sign followed by decimal digits only
IsIntegerLiteral(s) ==
    /\ Unsigned(s) # <<>>
    /\ \A i \in 1..Len(Unsigned(s)) : IsDigit(Unsigned(s)[i])

Raise(e) == [ok |-> FALSE, err |-> e]
Return(v) == [ok |-> TRUE, v |-> v]

\* _load_df, lines 139-145, without the padding of short rows
NormRow_NoPad(r, ncol) ==
    IF Len(r) > ncol THEN SubSeq(r, 1, ncol) ELSE r

\* _load_df, lines 139-145: pad with "" or truncate to ncol cells
NormRow(r, ncol) ==
    IF Len(r) < ncol THEN r \o [j \in 1..(ncol - Len(r)) |-> <<>>]
    ELSE IF Len(r) > ncol THEN SubSeq(r, 1, ncol)
    ELSE r

\* _load_df: headers and df from the fetched rows
_load_df(v) ==
    IF v = <<>>
    THEN [made |-> TRUE, headers |-> <<>>, df |-> <<>>]
    ELSE LET headers == [j \in 1..Len(v[1]) |-> Strip(v[1][j])]
             rows    == Tail(v)
         IN  [made |-> TRUE,
              headers |-> headers,
              df |-> [i \in 1..Len(rows) |-> NormRow(rows[i], Len(headers))]]

\* DataFrame.empty: no rows or no columns
DfEmpty(o) == Len(o.df) = 0 \/ Len(o.headers) = 0

\* _col_to_zero_based without the letter form
_col_to_zero_based_NameOnly(col, headers) ==
    LET c == Strip(col)
    IN  IF \E i \in 1..Len(headers) : headers[i] = c
        THEN Return((CHOOSE i \in 1..Len(headers) :
                        headers[i] = c
                        /\ \A k \in 1..(i - 1) : headers[k] # c) - 1)
        ELSE Raise("InvalidColumn")

\* _col_to_zero_based matching header names without regard to case
_col_to_zero_based_AnyCase(col, headers) ==
    LET c == Strip(col)
    IN  IF Len(c) = 1 /\ IsAlpha(c[1])
        THEN IF LetterIndex(c[1]) >= Len(headers)
             THEN Raise("OutOfRange")
             ELSE Return(LetterIndex(c[1]))
        ELSE IF \E i \in 1..Len(headers) : StrLower(headers[i]) = StrLower(c)
        THEN Return((CHOOSE i \in 1..Len(headers) :
                        StrLower(headers[i]) = StrLower(c)
                        /\ \A k \in 1..(i - 1) :
                              StrLower(headers[k]) # StrLower(c)) - 1)
        ELSE Raise("InvalidColumn")

\* _col_to_zero_based
_col_to_zero_based(col, headers) ==
    LET c == Strip(col)
    IN  IF Len(c) = 1 /\ IsAlpha(c[1])
        THEN LET idx == LetterIndex(c[1])
             IN  IF idx < 0 \/ idx >= Len(headers)
                 THEN Raise("OutOfRange")
                 ELSE Return(idx)
        ELSE IF \E i \in 1..Len(headers) : headers[i] = c
        THEN Return((CHOOSE i \in 1..Len(headers) :
                        headers[i] = c
                        /\ \A k \in 1..(i - 1) : headers[k] # c) - 1)
        ELSE Raise("InvalidColumn")

\* the largest element of a non-empty set of integers
Max(S) == CHOOSE x \in S : \A y \in S : y <= x

\* _actual_last_row_col
_actual_last_row_col(o) ==
    IF DfEmpty(o)
    THEN [lastRow |-> IF o.headers # <<>> THEN 1 ELSE 0,
          lastCol |-> Len(o.headers)]
    ELSE LET nrow == Len(o.df)
             ncol == Len(o.headers)
             non_empty(i, j) == Strip(o.df[i][j]) # <<>>
             rows_any == {i \in 1..nrow : \E j \in 1..ncol : non_empty(i, j)}
             header_any(j) == Strip(o.headers[j]) # <<>>
             cols_any(j) == \E i \in 1..nrow : non_empty(i, j)
             combined == {j \in 1..ncol : header_any(j) \/ cols_any(j)}
         IN  [lastRow |-> IF rows_any # {} THEN 2 + (Max(rows_any) - 1) ELSE 1,
              lastCol |-> IF combined # {} THEN Max(combined) ELSE 0]

\* bounds
bounds(o) ==
    Return([lastRow |-> _actual_last_row_col(o).lastRow,
            lastCol |-> _actual_last_row_col(o).lastCol,
            headers |-> o.headers])

\* get_column
get_column(o, col) ==
    LET c == _col_to_zero_based(col, o.headers)
        values == IF DfEmpty(o) THEN <<>>
                  ELSE [i \in 1..Len(o.df) |-> o.df[i][c.v + 1]]
    IN  IF ~c.ok THEN c
        ELSE Return([header |-> o.headers[c.v + 1],
                     values |-> values,
                     n |-> Len(values)])

\* get_cell_value resolving the column ahead of the row check
get_cell_value_ColumnFirst(o, row, col) ==
    LET c == _col_to_zero_based(col, o.headers)
    IN  IF ~c.ok THEN c
        ELSE IF row < 1 THEN Raise("InvalidRow")
        ELSE Return([header |-> o.headers[c.v + 1],
                     value |-> IF row = 1 THEN o.headers[c.v + 1]
                               ELSE IF row - 2 >= Len(o.df) THEN <<>>
                               ELSE o.df[row - 1][c.v + 1]])

\* get_cell_value
get_cell_value(o, row, col) ==
    IF row < 1 THEN Raise("InvalidRow")
    ELSE LET c == _col_to_zero_based(col, o.headers)
             r0 == row - 2
         IN  IF ~c.ok THEN c
             ELSE Return([header |-> o.headers[c.v + 1],
                          value |-> IF row = 1 THEN o.headers[c.v + 1]
                                    ELSE IF r0 < 0 \/ r0 >= Len(o.df) THEN <<>>
                                    ELSE o.df[r0 + 1][c.v + 1]])

(***************************************************************************)
(* Specifications SpecLoad and SpecAddr: one SheetOps object is built from *)
(* a fetch result and one of its methods is called.  The store hands back  *)
(* any list of rows of text; rows may be shorter or longer than row 1.     *)
(***************************************************************************)
HeaderTexts == { <<>>, <<"B">>, <<" ","a","b">> }
DataTexts == { <<" ">>, <<"x">> }

FetchResults ==
    {<<>>} \cup
    { <<h>> \o d : h \in TextsUpTo(HeaderTexts, MaxCols),
                   d \in TextsUpTo(TextsUpTo(DataTexts, MaxCols), MaxDataRows) }

\* fetch results whose rows all have the length of row 1
RectFetchResults ==
    {f \in FetchResults : \A i \in 1..Len(f) : Len(f[i]) = Len(f[1])}

Designators ==
    { <<"A">>, <<"b">>, <<"B">>, <<"a","b">>, <<"A","B">>,
      <<" ","a","b"," ">>, <<" ","A">>, <<>> }

RowNumbers == 0..(MaxDataRows + 2)

InitLoad ==
    /\ vals \in FetchResults
    /\ ops = NoOps
    /\ call = NoCall
    /\ raw = PyNone
    /\ parsed = PyNone
    /\ store = <<>>
    /\ req = <<>>

InitAddr ==
    /\ vals \in RectFetchResults
    /\ ops = NoOps
    /\ call = NoCall
    /\ raw = PyNone
    /\ parsed = PyNone
    /\ store = <<>>
    /\ req = <<>>

\* SheetOps.__init__: self.df = self._load_df()
Construct ==
    /\ ops = NoOps
    /\ ops' = _load_df(vals)
    /\ UNCHANGED <<vals, call, parseVars, netVars>>

\* ops.bounds()
CallBounds ==
    /\ ops # NoOps
    /\ call = NoCall
    /\ call' = [op |-> "bounds", out |-> bounds(ops)]
    /\ UNCHANGED <<vals, ops, parseVars, netVars>>

\* ops._col_to_zero_based(col)
CallResolve(col) ==
    /\ ops # NoOps
    /\ call = NoCall
    /\ call' = [op |-> "resolve", col |-> col,
                out |-> _col_to_zero_based(col, ops.headers)]
    /\ UNCHANGED <<vals, ops, parseVars, netVars>>

\* ops.get_column(col)
CallGetColumn(col) ==
    /\ ops # NoOps
    /\ call = NoCall
    /\ call' = [op |-> "get_column", col |-> col, out |-> get_column(ops, col)]
    /\ UNCHANGED <<vals, ops, parseVars, netVars>>

\* ops.get_cell_value(row, col)
CallGetCell(row, col) ==
    /\ ops # NoOps
    /\ call = NoCall
    /\ call' = [op |-> "get_cell", row |-> row, col |-> col,
                out |-> get_cell_value(ops, row, col)]
    /\ UNCHANGED <<vals, ops, parseVars, netVars>>

NextLoad ==
    \/ Construct
    \/ CallBounds

NextAddr ==
    \/ Construct
    \/ \E col \in Designators : CallResolve(col)
    \/ \E col \in Designators : CallGetColumn(col)
    \/ \E row \in RowNumbers, col \in Designators : CallGetCell(row, col)

SpecLoad == InitLoad /\ [][NextLoad]_vars
SpecAddr == InitAddr /\ [][NextAddr]_vars

\* C1: whatever the fetch returned, every data row of the grid has exactly
\* len(headers) cells: the cells a fetched row has within the header width
\* are kept unchanged and in order, the missing ones are "", the excess ones
\* are dropped; no row is added or lost; a fetch of zero rows gives no
\* headers and no data rows.
C1_GridRowsNormalized ==
    ops # NoOps =>
        IF vals = <<>>
        THEN ops.headers = <<>> /\ ops.df = <<>>
        ELSE /\ Len(ops.headers) = Len(vals[1])
             /\ Len(ops.df) = Len(vals) - 1
             /\ \A i \in 1..Len(ops.df) :
                   /\ Len(ops.df[i]) = Len(ops.headers)
                   /\ \A j \in 1..Len(ops.headers) :
                         ops.df[i][j] = IF j <= Len(vals[i + 1])
                                        THEN vals[i + 1][j] ELSE <<>>

\* a grid built from a fetch with one row shorter and one row longer than
\* the header row
C1_Witness ==
    /\ ops # NoOps
    /\ Len(vals) = 3
    /\ Len(vals[1]) = 1
    /\ Len(vals[2]) = 0
    /\ Len(vals[3]) = 2
    /\ ops.df = << << <<>> >>, << vals[3][1] >> >>

\* the columns of the grid that are used: zero-based index + 1
UsedCols(o) ==
    {j \in 1..Len(o.headers) :
        \/ o.headers[j] # <<>>
        \/ \E i \in 1..Len(o.df) : Strip(o.df[i][j]) # <<>>}

\* C2: bounds reports lastCol = 1 + the highest used zero-based column
\* index, a column being used when its header is non-empty or some data row
\* has non-blank trimmed text in it, and 0 when no column is used; this for
\* every grid, the ones with zero data rows included.
C2_LastColIsHighestUsed ==
    call.op = "bounds" =>
        call.out.v.lastCol =
            IF UsedCols(ops) = {} THEN 0 ELSE Max(UsedCols(ops))

\* the data rows that have a cell with non-blank trimmed text
NonBlankRows(o) ==
    {i \in 1..Len(o.df) : \E j \in 1..Len(o.df[i]) : Strip(o.df[i][j]) # <<>>}

\* C3: bounds reports lastRow = 0 for no headers and no data rows, 1 for
\* headers and zero data rows, and otherwise 2 + the zero-based index of the
\* last data row with a non-blank cell, or 1 when no data row has one.
C3_LastRowIsLastNonBlank ==
    call.op = "bounds" =>
        call.out.v.lastRow =
            IF ops.headers = <<>> /\ ops.df = <<>> THEN 0
            ELSE IF ops.df = <<>> THEN 1
            ELSE IF NonBlankRows(ops) # {} THEN 2 + (Max(NonBlankRows(ops)) - 1)
            ELSE 1

\* the designator is exactly one alphabetic character
IsLetterForm(col) == Len(col) = 1 /\ IsAlpha(col[1])

\* C4: a designator that is exactly one letter resolves, in either case, to
\* letter - 'A', and fails with OutOfRange when that is not below the header
\* count; a header with that one-character name does not change this.
C4_LetterFormWins ==
    (call.op = "resolve" /\ IsLetterForm(call.col)) =>
        call.out = IF LetterIndex(call.col[1]) >= Len(ops.headers)
                   THEN Raise("OutOfRange")
                   ELSE Return(LetterIndex(call.col[1]))

\* designator "B" on a grid whose only header is named "B": OutOfRange
C4_Witness ==
    /\ call.op = "resolve"
    /\ call.col = <<"B">>
    /\ ops.headers = << <<"B">> >>
    /\ call.out = Raise("OutOfRange")

\* C5 as stated: a designator that is not exactly one letter resolves to a
\* header's position if and only if it equals that header character for
\* character, and otherwise fails with InvalidColumn (surrounding whitespace
\* and letter case both count as differences).
C5_ExactNameOnly ==
    (call.op = "resolve" /\ ~IsLetterForm(call.col)) =>
        IF \E i \in 1..Len(ops.headers) : ops.headers[i] = call.col
        THEN call.out.ok /\ ops.headers[call.out.v + 1] = call.col
        ELSE call.out = Raise("InvalidColumn")

\* C5 amended: the designator is trimmed first.  When the trimmed designator
\* is not exactly one letter, it resolves to the first header equal to it
\* (case-sensitive) if there is one and fails with InvalidColumn otherwise.
C5_TrimmedNameLookup ==
    (call.op = "resolve" /\ ~IsLetterForm(Strip(call.col))) =>
        /\ call.out.ok =>
              /\ ops.headers[call.out.v + 1] = Strip(call.col)
              /\ \A k \in 1..call.out.v : ops.headers[k] # Strip(call.col)
        /\ ~call.out.ok =>
              /\ call.out.err = "InvalidColumn"
              /\ \A i \in 1..Len(ops.headers) :
                    ops.headers[i] # Strip(call.col)

\* a designator with surrounding whitespace resolved to the header it names
C5_Witness ==
    /\ call.op = "resolve"
    /\ Strip(call.col) # call.col
    /\ Len(Strip(call.col)) > 1
    /\ call.out.ok

\* C6: get_cell_value fails with InvalidRow for row < 1 whatever the column;
\* for a resolvable column it returns the header for row 1, the data cell at
\* index row - 2 for a row within the data rows, and "" without any error
\* for a row beyond them.
C6_CellRead ==
    call.op = "get_cell" =>
        LET c == _col_to_zero_based(call.col, ops.headers)
        IN  /\ call.row < 1 => call.out = Raise("InvalidRow")
            /\ (call.row = 1 /\ c.ok) =>
                  call.out.ok /\ call.out.v.value = ops.headers[c.v + 1]
            /\ (call.row >= 2 /\ c.ok /\ call.row - 2 < Len(ops.df)) =>
                  /\ call.out.ok
                  /\ call.out.v.value = ops.df[call.row - 1][c.v + 1]
            /\ (call.row >= 2 /\ c.ok /\ call.row - 2 >= Len(ops.df)) =>
                  call.out.ok /\ call.out.v.value = <<>>
            /\ (call.row >= 1 /\ ~c.ok) => call.out = c

\* a row below 1 read with a designator that resolves to nothing
C6_Witness ==
    /\ call.op = "get_cell"
    /\ call.row < 1
    /\ ~_col_to_zero_based(call.col, ops.headers).ok
    /\ call.out = Raise("InvalidRow")

(***************************************************************************)
(* The worksheet and the gspread calls made on it.  The sheet is a grid of *)
(* SheetDataRows + 1 rows and the columns A..C (add_cols writes column C); *)
(* an empty cell holds "".                                                 *)
(***************************************************************************)
UpperChar(c) ==
    IF IsLower(c) THEN UpperChars[LetterIndex(c) + 1] ELSE c
StrUpper(s) == [i \in 1..Len(s) |-> UpperChar(s[i])]

T_sum == <<"s","u","m">>
T_A == <<"A">>
T_B == <<"B">>
T_C == <<"C">>

SheetRows == 1..(SheetDataRows + 1)
SheetCols == 1..(LetterIndex("C") + 1)

EmptySheet == [r \in SheetRows |-> [c \in SheetCols |-> <<>>]]

\* ws.get_all_values(): the rows down to the last one with a non-empty cell,
\* each as wide as the last column with a non-empty cell; [] for an empty
\* sheet
GetAllValues(st) ==
    LET usedR == {r \in SheetRows : \E c \in SheetCols : st[r][c] # <<>>}
        usedC == {c \in SheetCols : \E r \in SheetRows : st[r][c] # <<>>}
    IN  IF usedR = {} THEN <<>>
        ELSE [r \in 1..Max(usedR) |-> [c \in 1..Max(usedC) |-> st[r][c]]]

RECURSIVE IntToText(_)
IntToText(n) ==
    IF n < 10 THEN <<DigitChars[n + 1]>>
    ELSE IntToText(n \div 10) \o <<DigitChars[(n % 10) + 1]>>

\* the text the sheet shows for a number
FormatNumber(neg, mant, exp) ==
    LET ds   == IntToText(mant)
        k    == 0 - exp
        body == IF exp >= 0 THEN IntToText(mant * Pow10(exp))
                ELSE IF Len(ds) > k
                THEN SubSeq(ds, 1, Len(ds) - k) \o <<".">>
                     \o SubSeq(ds, Len(ds) - k + 1, Len(ds))
                ELSE <<"0", ".">> \o [i \in 1..(k - Len(ds)) |-> "0"] \o ds
    IN  IF mant = 0 THEN <<"0">>
        ELSE IF neg THEN <<"-">> \o body ELSE body

\* the text the sheet shows for a written value; inf and nan go out as the
\* JSON tokens Infinity and NaN
FormatValue(v) ==
    IF v.t = "str" THEN v.s
    ELSE IF v.t = "bool"
         THEN IF v.b THEN <<"T","R","U","E">> ELSE <<"F","A","L","S","E">>
    ELSE IF v.t = "int" THEN FormatNumber(v.n < 0, IF v.n < 0 THEN 0 - v.n ELSE v.n, 0)
    ELSE IF v.kind = "nan" THEN <<"N","a","N">>
    ELSE IF v.kind = "inf"
         THEN IF v.neg THEN <<"-","I","n","f","i","n","i","t","y">>
              ELSE <<"I","n","f","i","n","i","t","y">>
    ELSE FormatNumber(v.neg, v.mant, v.exp)

\* ws.update_cell(row, col, value)
UpdateCell(st, row, col, v) == [st EXCEPT ![row][col] = FormatValue(v)]

\* ws.update(rng, out_vals) with rng = <col><start_row>:<col><end_row>
UpdateColumn(st, col, start_row, out_vals) ==
    [r \in SheetRows |->
        IF r >= start_row /\ r <= start_row + Len(out_vals) - 1
        THEN [st[r] EXCEPT ![col] = FormatValue(out_vals[r - start_row + 1])]
        ELSE st[r]]

\* col_to_index: re.match(r'^[A-Z]$', col) also lets a trailing newline
\* through, on which ord() raises TypeError
col_to_index(col) ==
    LET u == StrUpper(col)
    IN  IF Len(u) = 1 /\ IsUpper(u[1]) THEN Return(LetterIndex(u[1]) + 1)
        ELSE IF Len(u) = 2 /\ IsUpper(u[1]) /\ u[2] = "\n"
             THEN Raise("TypeError")
        ELSE Raise("InvalidCol")

(***************************************************************************)
(* add_cols: pd.to_numeric(errors="coerce").fillna(0.0) and the sum.       *)
(***************************************************************************)
NaN == PyFloatVal("nan", FALSE, 0, 0)
Zero == PyFloatVal("fin", FALSE, 0, 0)

\* pd.to_numeric(..., errors="coerce") of one cell: NaN when it does not parse
ToNumeric(text) == IF PyFloat(text).ok THEN PyFloat(text).v ELSE NaN

FillNa(v) == IF v.kind = "nan" THEN Zero ELSE v

FloatAdd(a, b) ==
    LET sa == IF a.neg THEN 0 - a.mant ELSE a.mant
        sb == IF b.neg THEN 0 - b.mant ELSE b.mant
        e  == IF a.exp < b.exp THEN a.exp ELSE b.exp
        m  == sa * Pow10(a.exp - e) + sb * Pow10(b.exp - e)
    IN  IF a.kind = "nan" \/ b.kind = "nan" THEN NaN
        ELSE IF a.kind = "inf" /\ b.kind = "inf"
             THEN IF a.neg = b.neg THEN a ELSE NaN
        ELSE IF a.kind = "inf" THEN a
        ELSE IF b.kind = "inf" THEN b
        ELSE IF m = 0 THEN PyFloatVal("fin", a.neg /\ b.neg, 0, 0)
        ELSE MkFloat(m < 0, IF m < 0 THEN 0 - m ELSE m, e)

\* add_cols, lines 232-240, without the fillna
OutVals_NoFillNa(o, a_idx, b_idx) ==
    [i \in 1..Len(o.df) |->
        FloatAdd(ToNumeric(o.df[i][a_idx + 1]), ToNumeric(o.df[i][b_idx + 1]))]

\* add_cols, lines 232-240: out_vals, one float per data row
OutVals(o, a_idx, b_idx) ==
    [i \in 1..Len(o.df) |->
        FloatAdd(FillNa(ToNumeric(o.df[i][a_idx + 1])),
                 FillNa(ToNumeric(o.df[i][b_idx + 1])))]

(***************************************************************************)
(* Specifications Spec and SpecSeq: the endpoints.  Every request runs in  *)
(* a thread of its own; the steps of a handler are its calls on the        *)
(* worksheet, and what it computes between two calls belongs to the step   *)
(* of the later call.  Requests are numbered in the order they arrive.     *)
(* Spec interleaves the steps of the requests; SpecSeq serves one request  *)
(* at a time.  Of a response only what the formulas below read is kept:    *)
(* whether the request was served or rejected, the kind of the error, and  *)
(* add_cols' writtenRows; what the read endpoints return is the subject of *)
(* SpecAddr and SpecLoad.                                                  *)
(***************************************************************************)
Requests == 1..NumRequests

NoOut == [ok |-> FALSE, err |-> "pending"]
NewReq == [kind |-> "none", pc |-> "new", row |-> 0, col |-> <<>>,
           snap |-> NoOps, out |-> NoOut]

\* the data rows a sheet starts with: columns A and B, numeric or not
InitRows == { << <<"1">>, <<"1">> >>, << <<"x">>, <<"1">> >>,
              << <<"2">>, <<"x">> >> }

\* header row a, b and the given rows of columns A and B
SheetOf(rows) ==
    [r \in SheetRows |->
        IF r = 1 THEN << <<"a">>, <<"b">>, <<>> >>
        ELSE IF r - 1 <= Len(rows) THEN <<rows[r - 1][1], rows[r - 1][2], <<>> >>
        ELSE << <<>>, <<>>, <<>> >>]

\* a sheet with column A only
OneColumnSheet ==
    [r \in SheetRows |->
        IF r = 1 THEN << <<"a">>, <<>>, <<>> >>
        ELSE IF r = 2 THEN << <<"1">>, <<>>, <<>> >>
        ELSE << <<>>, <<>>, <<>> >>]

InitSheets ==
    {EmptySheet, OneColumnSheet}
    \cup {SheetOf(rows) : rows \in TextsUpTo(InitRows, SheetDataRows)}

ReadCols == { <<"A">>, <<"z","z">> }
ReadRows == {0, 2}
SetCols == { <<"a">>, <<"C">>, <<"A","B">> }
SetRows == {2}
SetValues == { PyStr(<<" ","2">>), PyStr(<<"x">>) }

Init ==
    /\ store \in InitSheets
    /\ req = [r \in Requests |-> NewReq]
    /\ raw = PyNone
    /\ parsed = PyNone
    /\ vals = <<>>
    /\ ops = NoOps
    /\ call = NoCall

\* request r arrives next
Arrives(r) ==
    /\ req[r].pc = "new"
    /\ IF r = 1 THEN TRUE ELSE req[r - 1].pc # "new"

Sent == Return("sent")

\* the handler returns a response or raises
Finish(r, kind, out) ==
    [req EXCEPT ![r] = [NewReq EXCEPT
        !.kind = kind,
        !.pc = IF out.ok THEN "done" ELSE "rejected",
        !.out = IF out.ok /\ kind # "add_cols" THEN Sent ELSE out]]

\* GET /bounds
GetBounds(r) ==
    /\ Arrives(r)
    /\ req' = Finish(r, "bounds", bounds(_load_df(GetAllValues(store))))
    /\ UNCHANGED <<store, parseVars, opsVars>>

\* GET /column
GetColumnReq(r, col) ==
    /\ Arrives(r)
    /\ req' = Finish(r, "get_column",
                     get_column(_load_df(GetAllValues(store)), col))
    /\ UNCHANGED <<store, parseVars, opsVars>>

\* GET /cell
GetCell(r, row, col) ==
    /\ Arrives(r)
    /\ req' = Finish(r, "get_cell",
                     get_cell_value(_load_df(GetAllValues(store)), row, col))
    /\ UNCHANGED <<store, parseVars, opsVars>>

\* GET /add-cols: ops = SheetOps(sheet_id)
AddColsLoad(r) ==
    /\ Arrives(r)
    /\ req' = [req EXCEPT ![r] = [NewReq EXCEPT
                  !.kind = "add_cols", !.pc = "loaded",
                  !.snap = _load_df(GetAllValues(store))]]
    /\ UNCHANGED <<store, parseVars, opsVars>>

AIdx(o) == _col_to_zero_based(T_A, o.headers)
BIdx(o) == _col_to_zero_based(T_B, o.headers)
OIdx == LetterIndex(StrUpper(T_C)[1])

\* add_cols writing the header cell ahead of resolving colA and colB
AddColsReject_HeaderFirst(r) ==
    /\ req[r].kind = "add_cols"
    /\ req[r].pc = "loaded"
    /\ ~AIdx(req[r].snap).ok \/ ~BIdx(req[r].snap).ok
    /\ store' = UpdateCell(store, 1, OIdx + 1, PyStr(T_sum))
    /\ req' = Finish(r, "add_cols",
                     IF ~AIdx(req[r].snap).ok THEN AIdx(req[r].snap)
                     ELSE BIdx(req[r].snap))
    /\ UNCHANGED <<parseVars, opsVars>>

\* add_cols: colA or colB does not resolve
AddColsReject(r) ==
    /\ req[r].kind = "add_cols"
    /\ req[r].pc = "loaded"
    /\ ~AIdx(req[r].snap).ok \/ ~BIdx(req[r].snap).ok
    /\ req' = Finish(r, "add_cols",
                     IF ~AIdx(req[r].snap).ok THEN AIdx(req[r].snap)
                     ELSE BIdx(req[r].snap))
    /\ UNCHANGED <<store, parseVars, opsVars>>

\* add_cols: self.ws.update_cell(1, o_idx + 1, outHeader)
AddColsWriteHeader(r) ==
    /\ req[r].kind = "add_cols"
    /\ req[r].pc = "loaded"
    /\ AIdx(req[r].snap).ok /\ BIdx(req[r].snap).ok
    /\ store' = UpdateCell(store, 1, OIdx + 1, PyStr(T_sum))
    /\ req' = [req EXCEPT ![r].pc = "hdr"]
    /\ UNCHANGED <<parseVars, opsVars>>

\* the out_vals of an add_cols request past its validation
ReqOutVals(q) == OutVals(q.snap, AIdx(q.snap).v, BIdx(q.snap).v)

\* add_cols computing out_vals from a fresh read of the sheet
AddColsWriteRange_Reread(r) ==
    /\ req[r].kind = "add_cols"
    /\ req[r].pc = "hdr"
    /\ ReqOutVals(req[r]) # <<>>
    /\ store' = UpdateColumn(store, OIdx + 1, 2,
                             OutVals(_load_df(GetAllValues(store)), 0, 1))
    /\ req' = [req EXCEPT ![r].pc = "rng"]
    /\ UNCHANGED <<parseVars, opsVars>>

\* add_cols: if out_vals: self.ws.update(rng, out_vals)
AddColsWriteRange(r) ==
    /\ req[r].kind = "add_cols"
    /\ req[r].pc = "hdr"
    /\ ReqOutVals(req[r]) # <<>>
    /\ store' = UpdateColumn(store, OIdx + 1, 2, ReqOutVals(req[r]))
    /\ req' = [req EXCEPT ![r].pc = "rng"]
    /\ UNCHANGED <<parseVars, opsVars>>

\* add_cols: return {"writtenRows": len(out_vals), ...}
AddColsReturn(r) ==
    /\ req[r].kind = "add_cols"
    /\ \/ req[r].pc = "rng"
       \/ req[r].pc = "hdr" /\ ReqOutVals(req[r]) = <<>>
    /\ req' = Finish(r, "add_cols",
                     Return([writtenRows |-> Len(ReqOutVals(req[r]))]))
    /\ UNCHANGED <<store, parseVars, opsVars>>

\* GET /set-cell: col_to_index raises
SetCellReject(r, row, col, value) ==
    /\ Arrives(r)
    /\ ~col_to_index(StrUpper(col)).ok
    /\ req' = Finish(r, "set_cell", col_to_index(StrUpper(col)))
    /\ UNCHANGED <<store, parseVars, opsVars>>

\* GET /set-cell: sh.update_cell(row, col_idx, smart_parse(value or ""))
SetCellWrite(r, row, col, value) ==
    /\ Arrives(r)
    /\ col_to_index(StrUpper(col)).ok
    /\ store' = UpdateCell(store, row, col_to_index(StrUpper(col)).v,
                           smart_parse(ValueOrEmpty(value)))
    /\ req' = [req EXCEPT ![r] = [NewReq EXCEPT
                  !.kind = "set_cell", !.pc = "updated",
                  !.row = row, !.col = StrUpper(col)]]
    /\ UNCHANGED <<parseVars, opsVars>>

\* GET /set-cell: written = sh.cell(row, col_idx).value
SetCellReadBack(r) ==
    /\ req[r].kind = "set_cell"
    /\ req[r].pc = "updated"
    /\ req' = [req EXCEPT ![r].pc = "done", ![r].out = Sent]
    /\ UNCHANGED <<store, parseVars, opsVars>>

Step(r) ==
    \/ GetBounds(r)
    \/ \E col \in ReadCols : GetColumnReq(r, col)
    \/ \E row \in ReadRows, col \in ReadCols : GetCell(r, row, col)
    \/ AddColsLoad(r)
    \/ AddColsReject(r)
    \/ AddColsWriteHeader(r)
    \/ AddColsWriteRange(r)
    \/ AddColsReturn(r)
    \/ \E row \in SetRows, col \in SetCols, value \in SetValues :
          SetCellReject(r, row, col, value)
    \/ \E row \in SetRows, col \in SetCols, value \in SetValues :
          SetCellWrite(r, row, col, value)
    \/ SetCellReadBack(r)

InFlight(q) == q.pc \notin {"new", "done", "rejected"}

Next == \E r \in Requests : Step(r)

\* no request other than r is between two of its steps
Alone(r) == \A q \in Requests \ {r} : ~InFlight(req[q])

NextSeq ==
    \E r \in Requests :
        \/ Alone(r) /\ GetBounds(r)
        \/ \E col \in ReadCols : Alone(r) /\ GetColumnReq(r, col)
        \/ \E row \in ReadRows, col \in ReadCols : Alone(r) /\ GetCell(r, row, col)
        \/ Alone(r) /\ AddColsLoad(r)
        \/ Alone(r) /\ AddColsReject(r)
        \/ Alone(r) /\ AddColsWriteHeader(r)
        \/ Alone(r) /\ AddColsWriteRange(r)
        \/ Alone(r) /\ AddColsReturn(r)
        \/ \E row \in SetRows, col \in SetCols, value \in SetValues :
              Alone(r) /\ SetCellReject(r, row, col, value)
        \/ \E row \in SetRows, col \in SetCols, value \in SetValues :
              Alone(r) /\ SetCellWrite(r, row, col, value)
        \/ Alone(r) /\ SetCellReadBack(r)

Spec == Init /\ [][Next]_vars
SpecSeq == Init /\ [][NextSeq]_vars

\* what column C shows for a data row whose columns A and B hold a and b:
\* the sum of the two, a cell that is no number counting as 0
CellNumber(text) ==
    IF PyFloat(text).ok /\ PyFloat(text).v.kind # "nan"
    THEN PyFloat(text).v ELSE Zero
SumText(a, b) == FormatValue(FloatAdd(CellNumber(a), CellNumber(b)))

IsAddCols(q) == q.kind = "add_cols"

\* C7: when add_cols, served alone, returns, column C of the sheet holds
\* outHeader in row 1 and, for every data row i of the grid it fetched, the
\* sum num(A[i]) + num(B[i]) in row i + 2, a cell that does not parse as a
\* number (a blank one included) counting as 0; the returned count is the
\* number of data rows; and it is rejected only when column A or B does not
\* resolve, never because of what the cells hold.
C7_SumColumnWritten ==
    [][\A r \in Requests :
          /\ (IsAddCols(req[r]) /\ req[r].pc \in {"hdr", "rng"}
                /\ req'[r].pc = "done") =>
                /\ store'[1][3] = T_sum
                /\ \A i \in 1..Len(req[r].snap.df) :
                      store'[i + 1][3] = SumText(req[r].snap.df[i][1],
                                                 req[r].snap.df[i][2])
                /\ req'[r].out =
                      Return([writtenRows |-> Len(req[r].snap.df)])
          /\ (IsAddCols(req[r]) /\ req[r].pc = "loaded"
                /\ req'[r].pc = "rejected") =>
                Len(req[r].snap.headers) < 2
          /\ (IsAddCols(req[r]) /\ req[r].pc = "loaded"
                /\ Len(req[r].snap.headers) >= 2) =>
                req'[r].pc \in {"loaded", "hdr"}
      ]_vars

\* add_cols alone has returned on a sheet whose first data row holds a
\* non-numeric A and a numeric B: column C shows B's number
C7_Witness ==
    \E r \in Requests :
        /\ IsAddCols(req[r])
        /\ req[r].pc = "done"
        /\ req[r].out.v.writtenRows >= 1
        /\ \A q \in Requests \ {r} : req[q].pc = "new"
        /\ store[2][1] = <<"x">>
        /\ store[2][2] = <<"1">>
        /\ store[1][3] = T_sum
        /\ store[2][3] = <<"1">>

\* C9: the sheet changes only in a step of add_cols or set_cell that has
\* passed its validation; bounds, get_column and get_cell_value never write;
\* a request that is rejected has written nothing, its rejection coming
\* before its first write.
C9_WritesOnlyAfterValidation ==
    [][/\ store' # store =>
            \E r \in Requests :
                \/ /\ IsAddCols(req[r])
                   /\ req[r].pc = "loaded" /\ req'[r].pc = "hdr"
                   /\ AIdx(req[r].snap).ok /\ BIdx(req[r].snap).ok
                \/ /\ IsAddCols(req[r])
                   /\ req[r].pc = "hdr" /\ req'[r].pc = "rng"
                \/ /\ req[r].pc = "new"
                   /\ req'[r].kind = "set_cell" /\ req'[r].pc = "updated"
                   /\ col_to_index(req'[r].col).ok
       /\ \A r \in Requests :
            (req'[r] # req[r]
               /\ req'[r].kind \in {"bounds", "get_column", "get_cell"})
            => store' = store
       /\ \A r \in Requests :
            (req'[r].pc = "rejected" /\ req[r].pc # "rejected")
            => store' = store /\ req[r].pc \in {"new", "loaded"}
      ]_vars

\* an add_cols request was rejected because a column did not resolve
C9_Witness ==
    \E r \in Requests :
        /\ IsAddCols(req[r])
        /\ req[r].pc = "rejected"
        /\ req[r].out.err = "OutOfRange"

\* C10: add_cols writes from the grid it fetched at its start and never
\* re-reads: first the header cell alone, then the data range alone, whose
\* cells are the sums of the fetched rows whatever the sheet holds by then
\* (a set_cell landing in between is not reflected in the sums and, in
\* column C, is overwritten); with zero data rows it writes the header only.
C10_WritesFromSnapshot ==
    [][\A r \in Requests :
          /\ (IsAddCols(req[r]) /\ req[r].pc = "loaded" /\ req'[r].pc = "hdr")
                => /\ store' = [store EXCEPT ![1][3] = T_sum]
                   /\ req'[r].snap = req[r].snap
          /\ (IsAddCols(req[r]) /\ req[r].pc # "rng" /\ req'[r].pc = "rng")
                => /\ req[r].pc = "hdr"
                   /\ req'[r].snap = req[r].snap
                   /\ Len(req[r].snap.df) > 0
                   /\ \A row \in SheetRows, c \in SheetCols :
                         store'[row][c] =
                            IF c = 3 /\ row >= 2
                                     /\ row <= Len(req[r].snap.df) + 1
                            THEN SumText(req[r].snap.df[row - 1][1],
                                         req[r].snap.df[row - 1][2])
                            ELSE store[row][c]
          /\ (IsAddCols(req[r]) /\ req[r].pc = "hdr" /\ req'[r].pc = "done")
                => Len(req[r].snap.df) = 0 /\ store' = store
      ]_vars

SetTexts == {FormatValue(smart_parse(ValueOrEmpty(v))) : v \in SetValues}

\* add_cols fetched a sheet without column C, a set_cell then wrote C2, and
\* the range write has replaced it by the sum of the fetched row
C10_Witness ==
    \E r, q \in Requests :
        /\ IsAddCols(req[r])
        /\ req[r].pc = "rng"
        /\ Len(req[r].snap.headers) = 2
        /\ Len(req[r].snap.df) >= 1
        /\ req[q].kind = "set_cell"
        /\ req[q].pc \in {"updated", "done"}
        /\ req[q].row = 2
        /\ req[q].col = T_C
        /\ \A p \in Requests \ {r, q} : req[p].pc = "new"
        /\ store[2][3] = SumText(req[r].snap.df[1][1], req[r].snap.df[1][2])
        /\ store[2][3] \notin SetTexts

=============================================================================
